---------------------------- MODULE Spec2Model ----------------------------
(***************************************************************************)
(* CollisionStage of the traffic manager pipeline                          *)
(* (src/TrafficManager/source/pipeline/CollisionStage.cpp).                *)
(*                                                                         *)
(* Units.  Locations and extents are whole world units.  Speeds and the    *)
(* boundary extension are held in hundredths of a unit (fixed point), so   *)
(* that sqrt(7.0 * velocity) and 50 / 3.6 keep two decimals.               *)
(*                                                                         *)
(* Geometry.  Vehicles head along +x or -x and their path buffers run      *)
(* straight ahead on the vehicle's own axis, at least as far as the front  *)
(* bumper.  For these inputs every ring built by GetBoundary and           *)
(* GetGeodesicBoundary encloses exactly an axis-aligned rectangle, so a    *)
(* boost polygon is held as that rectangle and bg::intersection, bg::area  *)
(* and bg::distance are computed on rectangles.                            *)
(* A boundary built along the buffer of another vehicle of the lane (an    *)
(* index of id_to_index left from an earlier frame) is held as the         *)
(* rectangle that encloses its ring as well.                               *)
(***************************************************************************)
EXTENDS Integers, Sequences, FiniteSets

(***************************************************************************)
(* Bounds of the model.                                                    *)
(***************************************************************************)
\* Actor identities are 1..MaxActorId.
MaxActorId == 3
\* number_of_vehicle, the constructor's argument: the length of every frame.
NumberOfVehicle == 2
\* pool_size, the constructor's argument: the number of worker threads.
PoolSize == 2
\* Ticks (Receive -> Dispatch -> Send cycles) a behaviour runs through.
MaxTick == 2
\* The highest speed of a vehicle, in whole units per second
MaxSpeed == 30

(***************************************************************************)
(* CollisionStageConstants (lines 5-14).                                   *)
(***************************************************************************)
SEARCH_RADIUS == 20
VERTICAL_OVERLAP_THRESHOLD == 2
\* 0.0001, as the fraction 1 / ZERO_AREA_INVERSE
ZERO_AREA_INVERSE == 10000
\* 1.5, in hundredths
BOUNDARY_EXTENSION_MINIMUM == 150
EXTENSION_SQUARE_POINT == 7
\* 0.5, as the divisor 1 / 0.5
TIME_HORIZON_INVERSE == 2
\* 50 / 3.6 = 13.888..., in hundredths (a speed in hundredths exceeds
\* 13.888... iff it exceeds 1388)
HIGHWAY_SPEED == (50 * 1000) \div 36
HIGHWAY_TIME_HORIZON == 5

ActorIds == 1..MaxActorId
Indices == 0..(NumberOfVehicle - 1)
Threads == 0..(PoolSize - 1)

VARIABLES
  world,                \* the simulation: actor id -> actor
  alive,                \* world: the actors the simulation reports alive
  localization_frame,   \* the InputFrame received this tick
  id_to_index,          \* actor id -> index in the frame
  unregistered_actors,  \* ids of the actors not spawned by the traffic manager
  vicinity_grid,        \* ids the vicinity index holds
  frame_selector,       \* output array selector
  planner_frame_a,      \* output array a: index -> hazard
  planner_frame_b,      \* output array b: index -> hazard
  packet,               \* DataSender's packet, between the flip and SendData
  planner_messenger,    \* the downstream messenger: the array handed last
  stage,                \* PipelineStage's position in the tick
  worker,               \* per worker thread: its position in Action
  tick,                 \* number of frames received
  negotiated            \* the candidates negotiated this tick, with the outcome

vars == << world, alive, localization_frame, id_to_index, unregistered_actors,
           vicinity_grid, frame_selector, planner_frame_a, planner_frame_b,
           packet, planner_messenger, stage, worker, tick, negotiated >>

(***************************************************************************)
(* Arithmetic helpers.                                                     *)
(***************************************************************************)
Abs(v) == IF v < 0 THEN -v ELSE v
Max(a, b) == IF a > b THEN a ELSE b
Min(a, b) == IF a < b THEN a ELSE b
SetMax(S) == CHOOSE m \in S : \A s \in S : s <= m
SetMin(S) == CHOOSE m \in S : \A s \in S : m <= s

RECURSIVE SqrtBetween(_, _, _)
\* floor(sqrt(n)), by bisection of lo..hi
SqrtBetween(n, lo, hi) ==
  IF lo >= hi THEN lo
  ELSE LET mid == (lo + hi + 1) \div 2
       IN  IF mid * mid <= n THEN SqrtBetween(n, mid, hi)
                             ELSE SqrtBetween(n, lo, mid - 1)

\* std::sqrt of a value given in 1/10000: the root in hundredths
Sqrt(n) == SqrtBetween(n, 0, 20000)

Reverse(s) == [k \in 1..Len(s) |-> s[Len(s) + 1 - k]]

(***************************************************************************)
(* cg::Vector3D / cg::Location in the ground plane.                        *)
(***************************************************************************)
Vec(x, y) == [x |-> x, y |-> y]
VAdd(p, q) == Vec(p.x + q.x, p.y + q.y)
VSub(p, q) == Vec(p.x - q.x, p.y - q.y)
VScale(k, p) == Vec(k * p.x, k * p.y)
DistanceSquared(p, q) == (p.x - q.x) * (p.x - q.x) + (p.y - q.y) * (p.y - q.y)

(***************************************************************************)
(* Actors (carla::SharedPtr<cc::Actor>) and frame elements.                *)
(***************************************************************************)
Actor(id, x, y, z, heading, velocity) ==
  [id |-> id, x |-> x, y |-> y, z |-> z, heading |-> heading, velocity |-> velocity]
\* Actor actor = nullptr
NullActor == [id |-> 0]
GetId(actor) == actor.id
GetLocation(actor) == Vec(actor.x, actor.y)
GetHeight(actor) == actor.z
GetForwardVector(actor) == actor.heading
\* actor->GetVelocity().Length(), in hundredths
GetVelocityLength(actor) == actor.velocity
\* vehicle->GetBoundingBox().extent: half length and half width
BoundingBoxExtent == Vec(2, 1)

\* LocalizationToCollisionData: the actor and its path buffer; the buffer holds
\* the waypoints' distances ahead of the vehicle
Element(actor, buffer) == [actor |-> actor, buffer |-> buffer]

\* The waypoints of a frame element's path buffer
WaypointBuffer(element) ==
  [k \in 1..Len(element.buffer) |->
     [location |-> VAdd(GetLocation(element.actor),
                        VScale(element.buffer[k], GetForwardVector(element.actor))),
      forward  |-> GetForwardVector(element.actor)]]

\* localization_frame->at(index), index counted from 0
FrameAt(index) == localization_frame[index + 1]

(***************************************************************************)
(* The worlds the model runs in: a lane along x.                           *)
(***************************************************************************)
Headings == {Vec(1, 0), Vec(-1, 0)}

\* Every path buffer: waypoints two units apart, from the vehicle's location on
PathBuffer == << 0, 2, 4, 6, 8, 10 >>

\* The vehicles from 3 on stand five units apart further along the lane
Parked(id) == Actor(id, 5 * id - 7, 0, 0, Vec(1, 0), 0)

\* Vehicle 1 stands at the origin.  Vehicle 2 stands three units ahead, so
\* that the two bounding boxes overlap, heading the same or the opposite way;
\* vehicle 3 stands within reach of the path of vehicle 2.
LaneWorlds ==
  { [id \in ActorIds |->
       IF id = 1 THEN Actor(1, 0, 0, 0, Vec(1, 0), 0)
       ELSE IF id = 2 THEN Actor(2, 3, 0, 0, h2, 0)
       ELSE Parked(id)] :
      h2 \in Headings }

\* The worlds NegotiateCollision is evaluated in: vehicle 1 at the origin at
\* height 1, standing or at highway speed; vehicle 2 ahead of it (bounding
\* boxes overlapping, in the path of vehicle 1, or face to face at equal
\* distances), in the same lane or the next, level with vehicle 1 or up to
\* VERTICAL_OVERLAP_THRESHOLD + 1 above it, standing or driving.
NegotiateWorlds ==
  { [id \in ActorIds |->
       IF id = 1 THEN Actor(1, 0, 0, 1, h1, v1)
       ELSE IF id = 2 THEN Actor(2, x2, y2, z2, h2, v2)
       ELSE Parked(id)] :
      h1 \in Headings, v1 \in {0, 1500},
      x2 \in {3, 5, 7}, y2 \in {0, 3},
      z2 \in 1..(VERTICAL_OVERLAP_THRESHOLD + 2),
      h2 \in Headings, v2 \in {0, 400} }

\* The world of two vehicles out of reach of each other: vehicle 2 stands
\* just beyond SEARCH_RADIUS of vehicle 1 (and within it of vehicle 3)
FarWorlds ==
  { [id \in ActorIds |->
       IF id = 1 THEN Actor(1, 0, 0, 0, Vec(1, 0), 0)
       ELSE IF id = 2 THEN Actor(2, SEARCH_RADIUS + 1, 0, 0, Vec(1, 0), 0)
       ELSE Parked(id)] }

\* Every actor and every frame element of these worlds
AllActors ==
  {w[id] : w \in LaneWorlds \cup NegotiateWorlds \cup FarWorlds, id \in ActorIds}
AllElements == {Element(actor, PathBuffer) : actor \in AllActors}

(***************************************************************************)
(* GetBoundary (lines 281-301).                                            *)
(***************************************************************************)
GetBoundary(actor) ==
  LET extent == BoundingBoxExtent
      location == GetLocation(actor)
      heading_vector == GetForwardVector(actor)
      perpendicular_vector == Vec(-heading_vector.y, heading_vector.x)
      x_boundary_vector == VScale(extent.x, heading_vector)
      y_boundary_vector == VScale(extent.y, perpendicular_vector)
  IN  << VAdd(location, VSub(x_boundary_vector, y_boundary_vector)),
         VAdd(location, VSub(VScale(-1, x_boundary_vector), y_boundary_vector)),
         VAdd(location, VAdd(VScale(-1, x_boundary_vector), y_boundary_vector)),
         VAdd(location, VAdd(x_boundary_vector, y_boundary_vector)) >>

(***************************************************************************)
(* GetGeodesicBoundary (lines 222-279).                                    *)
(***************************************************************************)
\* The extension with TIME_HORIZON in the place of HIGHWAY_TIME_HORIZON
BboxExtensionShortHorizon(velocity) ==
  LET bbox_extension ==
        Max(Sqrt(EXTENSION_SQUARE_POINT * velocity * 100), BOUNDARY_EXTENSION_MINIMUM)
        + Max(velocity \div TIME_HORIZON_INVERSE, BOUNDARY_EXTENSION_MINIMUM)
        + BOUNDARY_EXTENSION_MINIMUM
  IN  IF velocity > HIGHWAY_SPEED THEN velocity \div TIME_HORIZON_INVERSE
                                  ELSE bbox_extension

\* bbox_extension of lines 229-233, in hundredths, of a velocity in hundredths
BboxExtension(velocity) ==
  LET bbox_extension ==
        Max(Sqrt(EXTENSION_SQUARE_POINT * velocity * 100), BOUNDARY_EXTENSION_MINIMUM)
        + Max(velocity \div TIME_HORIZON_INVERSE, BOUNDARY_EXTENSION_MINIMUM)
        + BOUNDARY_EXTENSION_MINIMUM
  IN  IF velocity > HIGHWAY_SPEED THEN HIGHWAY_TIME_HORIZON * velocity
                                  ELSE bbox_extension

\* boundary_end at the head of iteration i of the loop of lines 247-261:
\* waypoint_buffer->front() at first, waypoint_buffer->at(i - 1) afterwards
BoundaryEnd(waypoint_buffer, i) ==
  IF i = 0 THEN waypoint_buffer[1] ELSE waypoint_buffer[i]

\* The loop condition of lines 248-249 at the head of iteration i: the squared
\* distance (whole units) against the squared extension (hundredths)
WalkContinues(waypoint_buffer, bbox_extension, i) ==
  /\ DistanceSquared(waypoint_buffer[1].location,
                     BoundaryEnd(waypoint_buffer, i).location) * 10000
       < bbox_extension * bbox_extension
  /\ i < Len(waypoint_buffer)

\* The number of iterations the loop of lines 247-261 runs
WalkLength(waypoint_buffer, bbox_extension) ==
  CHOOSE n \in 0..Len(waypoint_buffer) :
    /\ ~WalkContinues(waypoint_buffer, bbox_extension, n)
    /\ \A i \in 0..(n - 1) : WalkContinues(waypoint_buffer, bbox_extension, i)

\* lines 252-259: the point pushed in iteration i, on the left (side = 1) or
\* on the right (side = -1); headings are axis directions, so the
\* perpendicular vector is a unit vector already
BoundaryPoint(waypoint_buffer, width, i, side) ==
  LET boundary_end == BoundaryEnd(waypoint_buffer, i)
      heading_vector == boundary_end.forward
      perpendicular_vector == Vec(-heading_vector.y, heading_vector.x)
      scaled_perpendicular == VScale(width, perpendicular_vector)
  IN  VAdd(boundary_end.location, VScale(side, scaled_perpendicular))

\* lines 228-274: the boundary of a managed actor whose frame element is element
GeodesicBoundary(actor, element) ==
  LET bbox == GetBoundary(actor)
      velocity == GetVelocityLength(actor)
      bbox_extension == BboxExtension(velocity)
      waypoint_buffer == WaypointBuffer(element)
      width == BoundingBoxExtent.y
      n == WalkLength(waypoint_buffer, bbox_extension)
      left_boundary ==
        [k \in 1..n |-> BoundaryPoint(waypoint_buffer, width, k - 1, 1)]
      right_boundary ==
        [k \in 1..n |-> BoundaryPoint(waypoint_buffer, width, k - 1, -1)]
  IN  Reverse(right_boundary) \o bbox \o left_boundary

\* GeodesicBoundary, tabulated: the boundary depends on the actor and on the
\* frame element only
GeodesicBoundaryTable ==
  [actor \in AllActors, element \in AllElements |-> GeodesicBoundary(actor, element)]

(***************************************************************************)
(* GetPolygon (lines 208-220) and the boost.geometry calls.                *)
(***************************************************************************)
\* std::to_string of a coordinate: sign, integer digits and six decimals
\* ("%f"); a whole unit prints with the decimals 000000.
ToString(c) == [negative |-> c < 0, digits |-> Abs(c), decimals |-> 0]
\* the number bg::read_wkt reads back, rounded to whole units
ReadWkt(s) ==
  LET magnitude == s.digits + (IF s.decimals >= 500000 THEN 1 ELSE 0)
  IN  IF s.negative THEN -magnitude ELSE magnitude

\* The polygon of a boundary: the ring of the printed and parsed points, closed
\* with boundary[0]; held as the rectangle the ring encloses.
GetPolygon(boundary) ==
  LET ring == [k \in 1..(Len(boundary) + 1) |->
                 LET p == IF k <= Len(boundary) THEN boundary[k] ELSE boundary[1]
                 IN  Vec(ReadWkt(ToString(p.x)), ReadWkt(ToString(p.y)))]
      xs == {ring[k].x : k \in 1..Len(ring)}
      ys == {ring[k].y : k \in 1..Len(ring)}
  IN  [xmin |-> SetMin(xs), xmax |-> SetMax(xs), ymin |-> SetMin(ys), ymax |-> SetMax(ys)]

\* bg::intersection: the output polygons (none when the interiors are disjoint)
Intersection(p, q) ==
  LET xmin == Max(p.xmin, q.xmin)
      xmax == Min(p.xmax, q.xmax)
      ymin == Max(p.ymin, q.ymin)
      ymax == Min(p.ymax, q.ymax)
  IN  IF xmin < xmax /\ ymin < ymax
      THEN << [xmin |-> xmin, xmax |-> xmax, ymin |-> ymin, ymax |-> ymax] >>
      ELSE << >>

\* bg::area
Area(p) == (p.xmax - p.xmin) * (p.ymax - p.ymin)

\* The gap between the intervals lo1..hi1 and lo2..hi2
Gap(lo1, hi1, lo2, hi2) ==
  IF hi1 < lo2 THEN lo2 - hi1 ELSE IF hi2 < lo1 THEN lo1 - hi2 ELSE 0

\* bg::distance of two polygons, squared: 0 when they touch or intersect.
\* Distances are only compared with each other, and the square keeps the order.
DistanceSq(p, q) ==
  LET gx == Gap(p.xmin, p.xmax, q.xmin, q.xmax)
      gy == Gap(p.ymin, p.ymax, q.ymin, q.ymax)
  IN  gx * gx + gy * gy

(***************************************************************************)
(* CheckOverlap (lines 185-206).                                           *)
(***************************************************************************)
CheckOverlap(boundary_a, boundary_b) ==
  IF Len(boundary_a) > 0 /\ Len(boundary_b) > 0
  THEN LET output == Intersection(GetPolygon(boundary_a), GetPolygon(boundary_b))
       IN  \E i \in 1..Len(output) : Area(output[i]) * ZERO_AREA_INVERSE > 1
  ELSE FALSE

(***************************************************************************)
(* NegotiateCollision (lines 153-183).                                     *)
(***************************************************************************)
\* lines 224-226, 234 and 275-278: the boundary of a managed actor is built
\* along the buffer of the frame element its id is mapped to
GetGeodesicBoundary(actor) ==
  IF GetId(actor) \in DOMAIN id_to_index
  THEN GeodesicBoundaryTable[actor, FrameAt(id_to_index[GetId(actor)])]
  ELSE GetBoundary(actor)

\* The vertical test with the threshold itself counted as overlap
VerticalOverlapInclusive(reference_height, other_height) ==
  Abs(reference_height - other_height) <= VERTICAL_OVERLAP_THRESHOLD

\* line 159: abs(reference_height - other_height) < VERTICAL_OVERLAP_THRESHOLD
VerticalOverlap(reference_height, other_height) ==
  Abs(reference_height - other_height) < VERTICAL_OVERLAP_THRESHOLD

\* The priority rule without the comparison of the distances
HasPriorityHazardUncompared(geodesic_overlap, reference_vehicle_to_other_geodesic, other_vehicle_to_reference_geodesic) ==
  geodesic_overlap

\* The priority rule with a comparison that is not strict
HasPriorityHazardNotStrict(geodesic_overlap, reference_vehicle_to_other_geodesic, other_vehicle_to_reference_geodesic) ==
  geodesic_overlap
    /\ reference_vehicle_to_other_geodesic >= other_vehicle_to_reference_geodesic

\* lines 175-176: the priority rule
HasPriorityHazard(geodesic_overlap, reference_vehicle_to_other_geodesic, other_vehicle_to_reference_geodesic) ==
  geodesic_overlap
    /\ reference_vehicle_to_other_geodesic > other_vehicle_to_reference_geodesic

GeodesicOverlap(reference_vehicle, other_vehicle) ==
  CheckOverlap(GetGeodesicBoundary(reference_vehicle), GetGeodesicBoundary(other_vehicle))

\* line 171 (for the reference) and line 172 (with the arguments swapped)
VehicleToGeodesic(vehicle, other) ==
  DistanceSq(GetPolygon(GetBoundary(vehicle)), GetPolygon(GetGeodesicBoundary(other)))

NegotiateCollision(reference_vehicle, other_vehicle) ==
  IF VerticalOverlap(GetHeight(reference_vehicle), GetHeight(other_vehicle))
  THEN HasPriorityHazard(GeodesicOverlap(reference_vehicle, other_vehicle),
                         VehicleToGeodesic(reference_vehicle, other_vehicle),
                         VehicleToGeodesic(other_vehicle, reference_vehicle))
  ELSE FALSE


(***************************************************************************)
(* The output arrays and the worker threads' ranges.                       *)
(***************************************************************************)
\* The selection that ignores the selector
CurrentPlannerFrameFixed(selector) == "a"

\* line 49 / line 147: frame_selector ? planner_frame_a : planner_frame_b
CurrentPlannerFrame(selector) == IF selector THEN "a" ELSE "b"

PlannerFrame(instance) == IF instance = "a" THEN planner_frame_a ELSE planner_frame_b

\* PipelineStage hands thread t the contiguous range StartIndex(t)..EndIndex(t);
\* the ranges are disjoint and cover 0..NumberOfVehicle-1.
LoadPerThread == (NumberOfVehicle + PoolSize - 1) \div PoolSize
StartIndex(t) == t * LoadPerThread
EndIndex(t) == Min(StartIndex(t) + LoadPerThread - 1, NumberOfVehicle - 1)

\* A worker thread outside Action
IdleWorker == [pc |-> "idle", i |-> 0, actor_ids_to_erase |-> {}, actor_id_list |-> {},
               collision_hazard |-> FALSE, current_planner_frame |-> "a"]

\* The threads inside Action
Active(t) == worker[t].pc \notin {"idle", "done"}

\* The position of a thread that enters (or re-enters) the loop of line 86 at i
LoopEntry(t, i) == IF i <= EndIndex(t) THEN "query" ELSE "done"

(***************************************************************************)
(* The vicinity index (external): update, erase, query.                    *)
(***************************************************************************)
UpdateGrid(grid, actors) == grid \cup actors
EraseActor(grid, actor_ids) == grid \ actor_ids
\* The index tracks the querying actor and answers with the ids it holds
\* around it; the stage itself filters them by distance (line 111).
GetActors(grid, ego_actor) == UpdateGrid(grid, {ego_actor})

(***************************************************************************)
(* DataReceiver (lines 130-142).                                           *)
(***************************************************************************)
\* std::unordered_map::insert: an existing key keeps its value
MapInsert(map, key, value) ==
  IF key \in DOMAIN map THEN map
  ELSE [k \in DOMAIN map \cup {key} |-> IF k = key THEN value ELSE map[k]]

RECURSIVE InsertFrame(_, _, _)
\* The loop of lines 138-141 from position index on
InsertFrame(map, frame, index) ==
  IF index >= Len(frame) THEN map
  ELSE InsertFrame(MapInsert(map, GetId(frame[index + 1].actor), index), frame, index + 1)

\* The frames the localization stage can deliver: NumberOfVehicle distinct
\* live vehicles in any order, each with its path buffer
Frames ==
  { [k \in 1..NumberOfVehicle |-> Element(world[f[k]], PathBuffer)] :
      f \in { g \in [1..NumberOfVehicle -> alive] :
                \A j, k \in 1..NumberOfVehicle : j # k => g[j] # g[k] } }

FrameIds == {GetId(localization_frame[k].actor) : k \in 1..Len(localization_frame)}

\* lines 131-141 for the frame the localization messenger hands over
ReceiveFrame(frame) ==
  /\ stage = "receive"
  /\ tick < MaxTick
  /\ localization_frame' = frame
  /\ id_to_index' = InsertFrame(id_to_index, frame, 0)
  /\ tick' = tick + 1
  /\ stage' = "action"
  /\ worker' = [t \in Threads |-> IdleWorker]
  /\ negotiated' = {}
  /\ UNCHANGED << world, alive, unregistered_actors, vicinity_grid, frame_selector,
                  planner_frame_a, planner_frame_b, packet, planner_messenger >>

DataReceiver == \E frame \in Frames : ReceiveFrame(frame)

(***************************************************************************)
(* Action (lines 47-128), one worker thread t, step by step.               *)
(***************************************************************************)
\* line 49, and the choice of line 53
ActionBegin(t) ==
  /\ stage = "action"
  /\ worker[t].pc = "idle"
  /\ worker' = [worker EXCEPT
       ![t].current_planner_frame = CurrentPlannerFrame(frame_selector),
       ![t].i = StartIndex(t),
       ![t].pc = IF StartIndex(t) = 0 THEN "scan" ELSE LoopEntry(t, StartIndex(t))]
  /\ UNCHANGED << world, alive, localization_frame, id_to_index, unregistered_actors,
                  vicinity_grid, frame_selector, planner_frame_a, planner_frame_b,
                  packet, planner_messenger, stage, tick, negotiated >>

\* The scan that looks an actor up in the table only
ScanInsertUnchecked(world_actors, registry, table) ==
  table \cup {unregistered_id \in world_actors : unregistered_id \notin table}

\* lines 59-66: the actors a world scan inserts
ScanInsert(world_actors, registry, table) ==
  table \cup {unregistered_id \in world_actors :
                unregistered_id \notin DOMAIN registry /\ unregistered_id \notin table}

\* lines 54-68; elapsed is whether more than 0.5 s passed since the last scan
ScanWorld(t) ==
  /\ stage = "action"
  /\ worker[t].pc = "scan"
  /\ \E elapsed \in BOOLEAN :
       unregistered_actors' =
         IF elapsed THEN ScanInsert(alive, id_to_index, unregistered_actors)
                    ELSE unregistered_actors
  /\ worker' = [worker EXCEPT ![t].pc = "refresh"]
  /\ UNCHANGED << world, alive, localization_frame, id_to_index, vicinity_grid,
                  frame_selector, planner_frame_a, planner_frame_b, packet,
                  planner_messenger, stage, tick, negotiated >>

\* lines 71-79: the ids collected in actor_ids_to_erase
ActorIdsToErase(table) == {actor_id \in table : actor_id \notin alive}

\* The loop of lines 80-82 left out
EraseNone(table, actor_ids_to_erase) == table

\* lines 80-82
EraseAll(table, actor_ids_to_erase) == table \ actor_ids_to_erase

\* lines 70-82
RefreshUnregistered(t) ==
  /\ stage = "action"
  /\ worker[t].pc = "refresh"
  /\ vicinity_grid' =
       EraseActor(UpdateGrid(vicinity_grid, unregistered_actors \cap alive),
                  ActorIdsToErase(unregistered_actors))
  /\ unregistered_actors' =
       EraseAll(unregistered_actors, ActorIdsToErase(unregistered_actors))
  /\ worker' = [worker EXCEPT
       ![t].actor_ids_to_erase = ActorIdsToErase(unregistered_actors),
       ![t].pc = LoopEntry(t, StartIndex(t))]
  /\ UNCHANGED << world, alive, localization_frame, id_to_index, frame_selector,
                  planner_frame_a, planner_frame_b, packet, planner_messenger,
                  stage, tick, negotiated >>

\* lines 88-94
QueryVicinity(t) ==
  /\ stage = "action"
  /\ worker[t].pc = "query"
  /\ LET ego_actor == FrameAt(worker[t].i).actor
     IN  /\ vicinity_grid' = GetActors(vicinity_grid, GetId(ego_actor))
         /\ worker' = [worker EXCEPT ![t].actor_id_list = vicinity_grid',
                                     ![t].collision_hazard = FALSE,
                                     ![t].pc = "candidates"]
  /\ UNCHANGED << world, alive, localization_frame, id_to_index, unregistered_actors,
                  frame_selector, planner_frame_a, planner_frame_b, packet,
                  planner_messenger, stage, tick, negotiated >>

\* lines 103-108
ResolveActor(actor_id) ==
  IF actor_id \in DOMAIN id_to_index THEN FrameAt(id_to_index[actor_id]).actor
  ELSE IF actor_id \in unregistered_actors THEN world[actor_id]
  ELSE NullActor

\* The test of line 111 left out
WithinAnyRadius(ego_actor, actor) == TRUE

\* line 111
WithinSearchRadius(ego_actor, actor) ==
  DistanceSquared(GetLocation(ego_actor), GetLocation(actor))
    <= SEARCH_RADIUS * SEARCH_RADIUS

\* lines 110-115, for a resolved actor that answers
HazardFrom(ego_actor, actor) ==
  WithinSearchRadius(ego_actor, actor) /\ NegotiateCollision(ego_actor, actor)

\* One pass of the loop of line 97 over a candidate other than a null actor.
\* The order of a std::unordered_set is any order.  A query of an actor that is
\* no longer alive may throw; the exception is caught in lines 117-120.
CheckCandidate(t) ==
  /\ stage = "action"
  /\ worker[t].pc = "candidates"
  /\ ~worker[t].collision_hazard
  /\ \E actor_id \in worker[t].actor_id_list :
       LET ego_actor == FrameAt(worker[t].i).actor
           ego_actor_id == GetId(ego_actor)
           actor == ResolveActor(actor_id)
           rest == worker[t].actor_id_list \ {actor_id}
       IN  \/ /\ actor_id = ego_actor_id
              /\ worker' = [worker EXCEPT ![t].actor_id_list = rest]
              /\ UNCHANGED negotiated
           \/ /\ actor_id # ego_actor_id
              /\ actor # NullActor
              /\ GetId(actor) \notin alive
              \* actor->GetLocation() throws
              /\ worker' = [worker EXCEPT ![t].actor_id_list = rest]
              /\ UNCHANGED negotiated
           \/ /\ actor_id # ego_actor_id
              /\ actor # NullActor
              /\ LET hazard == HazardFrom(ego_actor, actor)
                 IN  /\ worker' = [worker EXCEPT
                          ![t].actor_id_list = rest,
                          ![t].collision_hazard = hazard]
                     /\ negotiated' =
                          IF WithinSearchRadius(ego_actor, actor)
                          THEN negotiated \cup
                                 {[reference |-> ego_actor_id, other |-> GetId(actor),
                                   hazard |-> hazard]}
                          ELSE negotiated
  /\ UNCHANGED << world, alive, localization_frame, id_to_index, unregistered_actors,
                  vicinity_grid, frame_selector, planner_frame_a, planner_frame_b,
                  packet, planner_messenger, stage, tick >>

\* Line 110 on a candidate found in neither table: actor is still nullptr and
\* actor->GetLocation() dereferences it.  That is undefined behaviour, not an
\* exception: the process is killed, or the call reads garbage and the pass
\* ends with any value of collision_hazard.
CheckNullCandidate(t) ==
  /\ stage = "action"
  /\ worker[t].pc = "candidates"
  /\ ~worker[t].collision_hazard
  /\ \E actor_id \in worker[t].actor_id_list :
       /\ actor_id # GetId(FrameAt(worker[t].i).actor)
       /\ ResolveActor(actor_id) = NullActor
       /\ \/ /\ stage' = "crashed"
             /\ UNCHANGED << worker, negotiated >>
          \/ /\ \E garbage \in BOOLEAN :
                  /\ worker' = [worker EXCEPT
                       ![t].actor_id_list = worker[t].actor_id_list \ {actor_id},
                       ![t].collision_hazard = garbage]
                  /\ negotiated' = negotiated \cup
                       {[reference |-> GetId(FrameAt(worker[t].i).actor),
                         other |-> GetId(NullActor), hazard |-> garbage]}
             /\ UNCHANGED stage
  /\ UNCHANGED << world, alive, localization_frame, id_to_index, unregistered_actors,
                  vicinity_grid, frame_selector, planner_frame_a, planner_frame_b,
                  packet, planner_messenger, tick >>

\* The message left as it is
WriteNothing(frame, i, collision_hazard) == frame

\* lines 124-125: message.hazard = collision_hazard
WriteMessage(frame, i, collision_hazard) == [frame EXCEPT ![i] = collision_hazard]

\* The end of the loop of line 97, lines 124-125 and the ++i of line 86
WriteHazard(t) ==
  /\ stage = "action"
  /\ worker[t].pc = "candidates"
  /\ worker[t].collision_hazard \/ worker[t].actor_id_list = {}
  /\ IF worker[t].current_planner_frame = "a"
     THEN /\ planner_frame_a' =
               WriteMessage(planner_frame_a, worker[t].i, worker[t].collision_hazard)
          /\ UNCHANGED planner_frame_b
     ELSE /\ planner_frame_b' =
               WriteMessage(planner_frame_b, worker[t].i, worker[t].collision_hazard)
          /\ UNCHANGED planner_frame_a
  /\ worker' = [worker EXCEPT ![t].i = worker[t].i + 1,
                              ![t].actor_id_list = {},
                              ![t].collision_hazard = FALSE,
                              ![t].pc = LoopEntry(t, worker[t].i + 1)]
  /\ UNCHANGED << world, alive, localization_frame, id_to_index, unregistered_actors,
                  vicinity_grid, frame_selector, packet, planner_messenger, stage,
                  tick, negotiated >>

(***************************************************************************)
(* DataSender (lines 144-151).                                             *)
(***************************************************************************)
\* Every worker thread has returned from Action: the sender thread is woken
AllFinished == \A t \in Threads : worker[t].pc = "done"

\* The selector left as it is
FlipNever(selector) == selector

\* line 149
Flip(selector) == ~selector

\* DataSender with the selector flipped before the packet is built
DataSenderFlipFirst ==
  /\ stage = "action"
  /\ AllFinished
  /\ frame_selector' = Flip(frame_selector)
  /\ packet' = CurrentPlannerFrame(frame_selector')
  /\ stage' = "send"
  /\ UNCHANGED << world, alive, localization_frame, id_to_index, unregistered_actors,
                  vicinity_grid, planner_frame_a, planner_frame_b, planner_messenger,
                  worker, tick, negotiated >>

\* lines 145-149: the packet is built, then the selector is flipped
DataSender ==
  /\ stage = "action"
  /\ AllFinished
  /\ packet' = CurrentPlannerFrame(frame_selector)
  /\ frame_selector' = Flip(frame_selector)
  /\ stage' = "send"
  /\ UNCHANGED << world, alive, localization_frame, id_to_index, unregistered_actors,
                  vicinity_grid, planner_frame_a, planner_frame_b, planner_messenger,
                  worker, tick, negotiated >>

\* line 150: SendData returns, the array of the packet is the one the
\* downstream stage reads from now on
SendData ==
  /\ stage = "send"
  /\ planner_messenger' = [data |-> packet, tick |-> tick]
  /\ packet' = "none"
  /\ stage' = "receive"
  /\ UNCHANGED << world, alive, localization_frame, id_to_index, unregistered_actors,
                  vicinity_grid, frame_selector, planner_frame_a, planner_frame_b,
                  worker, tick, negotiated >>

(***************************************************************************)
(* The world: an actor outside the current frame stops being alive.        *)
(***************************************************************************)
ActorDies ==
  /\ stage \in {"receive", "action"}
  /\ \E actor_id \in alive \ FrameIds :
       alive' = alive \ {actor_id}
  /\ UNCHANGED << world, localization_frame, id_to_index, unregistered_actors,
                  vicinity_grid, frame_selector, planner_frame_a, planner_frame_b,
                  packet, planner_messenger, stage, worker, tick, negotiated >>

(***************************************************************************)
(* Initial states.                                                         *)
(***************************************************************************)
\* The state the constructor leaves (lines 31-41), in one of the given worlds
InitIn(worlds) ==
  /\ world \in worlds
  /\ alive = ActorIds
  /\ localization_frame = << >>
  /\ id_to_index = << >>
  /\ unregistered_actors = {}
  /\ vicinity_grid = {}
  /\ frame_selector = TRUE
  /\ planner_frame_a = [i \in Indices |-> FALSE]
  /\ planner_frame_b = [i \in Indices |-> FALSE]
  /\ packet = "none"
  /\ planner_messenger = [data |-> "none", tick |-> 0]
  /\ stage = "receive"
  /\ worker = [t \in Threads |-> IdleWorker]
  /\ tick = 0
  /\ negotiated = {}

Init == InitIn(LaneWorlds)

Next ==
  \/ DataReceiver
  \/ \E t \in Threads : ActionBegin(t)
  \/ \E t \in Threads : ScanWorld(t)
  \/ \E t \in Threads : RefreshUnregistered(t)
  \/ \E t \in Threads : QueryVicinity(t)
  \/ \E t \in Threads : CheckCandidate(t)
  \/ \E t \in Threads : CheckNullCandidate(t)
  \/ \E t \in Threads : WriteHazard(t)
  \/ DataSender
  \/ SendData
  \/ ActorDies

Spec == Init /\ [][Next]_vars

(***************************************************************************)
(* Properties of the double buffer.                                        *)
(***************************************************************************)
\* The arrays the workers inside Action write, and the array the downstream
\* stage reads (the one it was handed last)
WrittenInstances == {worker[t].current_planner_frame : t \in {u \in Threads : Active(u)}}
ReadInstances == {planner_messenger.data} \ {"none"}

\* C1: in every reachable state the array being written by the workers is not
\* the array the downstream stage is reading; at most one array is being
\* written and at most one is being read.
WriteNeverMeetsRead ==
  /\ Cardinality(WrittenInstances) <= 1
  /\ Cardinality(ReadInstances) <= 1
  /\ WrittenInstances \cap ReadInstances = {}

\* A worker of the second tick is about to write while the downstream stage
\* reads the array of the first tick
WriteBesideReadReached ==
  /\ ReadInstances # {}
  /\ \E t \in Threads : worker[t].pc = "candidates" /\ worker[t].actor_id_list = {}

SelectorOfTick == (tick % 2 = 1)
FlippedOncePerTick ==
  frame_selector = IF stage \in {"action", "crashed"} THEN SelectorOfTick
                                                     ELSE ~SelectorOfTick

\* C3, as stated: the selector is flipped only when the hand-off of the array
\* written in this tick has completed.
FlipOnlyAfterSend ==
  [][frame_selector' # frame_selector =>
       /\ planner_messenger.tick = tick
       /\ planner_messenger.data = CurrentPlannerFrame(frame_selector)]_vars

\* C3, amended: the selector is flipped exactly once per tick, in DataSender,
\* when every worker has finished and together with the building of the packet
\* of the array just written, before the hand-off of this tick; the hand-off
\* follows with the selector already flipped and passes on the array written
\* in the tick.
FlipOncePerTickBeforeSend ==
  /\ []FlippedOncePerTick
  /\ [][frame_selector' # frame_selector =>
         /\ stage = "action" /\ stage' = "send"
         /\ AllFinished
         /\ packet' = CurrentPlannerFrame(frame_selector)
         /\ planner_messenger.tick < tick
         /\ planner_messenger' = planner_messenger]_vars
  /\ [][planner_messenger' # planner_messenger =>
         /\ stage = "send"
         /\ frame_selector' = frame_selector
         /\ planner_messenger' = [data |-> CurrentPlannerFrame(~frame_selector),
                                  tick |-> tick]]_vars

\* The selector is flipped and the array of this tick is not handed off yet
FlippedBeforeSendReached ==
  /\ stage = "send"
  /\ packet = CurrentPlannerFrame(~frame_selector)
  /\ planner_messenger.tick < tick

(***************************************************************************)
(* Properties of the registry.                                             *)
(***************************************************************************)
\* C4: after DataReceiver, id_to_index maps exactly the identities of the
\* current frame, each to its position in the frame.
RegistryIsFrameBijection ==
  stage = "action" =>
    /\ DOMAIN id_to_index = FrameIds
    /\ \A index \in Indices :
         id_to_index[GetId(FrameAt(index).actor)] = index

(***************************************************************************)
(* Properties of a tick's hazard flags.                                    *)
(***************************************************************************)
\* The records of one pair negotiated in the two orders
Mirrored(p, q) == p.reference = q.other /\ p.other = q.reference

\* Every worker has returned from Action and the arrays are not handed yet
EndOfTick == stage = "action" /\ AllFinished

\* message.hazard of the frame's index, in the array written in this tick
HazardFlag(index) == PlannerFrame(CurrentPlannerFrame(frame_selector))[index]

\* A tick with two managed vehicles of identical heading, stationary, at the
\* same height, with overlapping bounding boxes
OverlapScenario ==
  /\ Len(localization_frame) = 2
  /\ LET a == FrameAt(0).actor
         b == FrameAt(1).actor
     IN  /\ GetForwardVector(a) = GetForwardVector(b)
         /\ GetVelocityLength(a) = 0 /\ GetVelocityLength(b) = 0
         /\ GetHeight(a) = GetHeight(b)
         /\ CheckOverlap(GetBoundary(a), GetBoundary(b))

\* No candidate but the vehicles of the frame was negotiated in this tick
OnlyFrameNegotiated == \A p \in negotiated : p.other \in FrameIds

\* Each of the two vehicles was negotiated against the other in this tick
BothOrdersNegotiated ==
  \E p, q \in negotiated :
    /\ Mirrored(p, q)
    /\ p.reference = GetId(FrameAt(0).actor)
    /\ p.other = GetId(FrameAt(1).actor)

\* C7, as stated: the scenario ends the tick with exactly one of the two
\* hazard flags set.
ExactlyOneFlagged ==
  (EndOfTick /\ OverlapScenario /\ OnlyFrameNegotiated /\ BothOrdersNegotiated)
    => (HazardFlag(0) # HazardFlag(1))

\* C7, amended: the scenario ends the tick with neither hazard flag set when
\* no candidate but the two vehicles was negotiated.
NeitherFlagged ==
  (EndOfTick /\ OverlapScenario /\ OnlyFrameNegotiated)
    => (~HazardFlag(0) /\ ~HazardFlag(1))

\* The scenario at the end of a tick in which each vehicle was negotiated
\* against the other
NeitherFlaggedReached ==
  /\ EndOfTick /\ OverlapScenario /\ OnlyFrameNegotiated /\ BothOrdersNegotiated
  /\ ~HazardFlag(0) /\ ~HazardFlag(1)

\* C9: a candidate that cannot be resolved or queried counts as no hazard and
\* never aborts the tick.
CandidateFailureIsNoHazard ==
  /\ stage # "crashed"
  /\ \A p \in negotiated : p.other = GetId(NullActor) => ~p.hazard

(***************************************************************************)
(* Properties of the table of unregistered actors.                         *)
(***************************************************************************)
\* The threads that have completed the refresh of this tick
Refreshed == {t \in Threads : worker[t].pc \in {"query", "candidates", "done"}
                                /\ StartIndex(t) = 0}

\* C10: an unregistered actor found not alive by a refresh is, from the end of
\* that refresh on, in neither the table nor the vicinity index, and an actor
\* enters the table only in a world scan that lists it.
DeadUnregisteredStaysErased ==
  /\ [](\A t \in Refreshed : \A actor_id \in worker[t].actor_ids_to_erase :
          actor_id \notin unregistered_actors /\ actor_id \notin vicinity_grid)
  /\ [][\A actor_id \in unregistered_actors' \ unregistered_actors :
          /\ \E t \in Threads : worker[t].pc = "scan" /\ worker'[t].pc = "refresh"
          /\ actor_id \in alive]_vars

\* A refresh has erased an actor that was in the table and not alive
DeadUnregisteredErasedReached ==
  \E t \in Refreshed : worker[t].actor_ids_to_erase # {}

(***************************************************************************)
(* NegotiateCollision on its own: after a frame is received, one pair of   *)
(* actors of the world is negotiated in both orders.                       *)
(***************************************************************************)
Negotiation(reference_id, other_id) ==
  [reference |-> reference_id, other |-> other_id,
   hazard |-> NegotiateCollision(world[reference_id], world[other_id])]

NegotiatePair(reference_id, other_id) ==
  /\ stage = "action"
  /\ negotiated = {}
  /\ reference_id # other_id
  /\ negotiated' = {Negotiation(reference_id, other_id),
                    Negotiation(other_id, reference_id)}
  /\ UNCHANGED << world, alive, localization_frame, id_to_index, unregistered_actors,
                  vicinity_grid, frame_selector, planner_frame_a, planner_frame_b,
                  packet, planner_messenger, stage, worker, tick >>

InitNegotiate == InitIn(NegotiateWorlds)

NextNegotiate ==
  \/ DataReceiver
  \/ \E reference_id, other_id \in ActorIds : NegotiatePair(reference_id, other_id)

SpecNegotiate == InitNegotiate /\ [][NextNegotiate]_vars

(***************************************************************************)
(* Properties of NegotiateCollision.                                       *)
(***************************************************************************)
\* The two distances of lines 171-172 for a record of negotiated
ReferenceToOther(p) == VehicleToGeodesic(world[p.reference], world[p.other])
OtherToReference(p) == VehicleToGeodesic(world[p.other], world[p.reference])
HeightsApart(p) == Abs(GetHeight(world[p.reference]) - GetHeight(world[p.other]))

\* C5: for a pair of actors negotiated in both orders in one tick,
\* NegotiateCollision never returns true for both orders.
NeverHazardBothWays ==
  \A p, q \in negotiated : Mirrored(p, q) => ~(p.hazard /\ q.hazard)

\* A pair negotiated in both orders where one order yields a hazard
OneWayHazardReached ==
  \E p, q \in negotiated : Mirrored(p, q) /\ p.hazard /\ ~q.hazard

\* C6: whenever the heights of the two actors differ by at least
\* VERTICAL_OVERLAP_THRESHOLD, NegotiateCollision returns false, whatever the
\* planar geometry.
VerticallyApartNoHazard ==
  \A p \in negotiated : HeightsApart(p) >= VERTICAL_OVERLAP_THRESHOLD => ~p.hazard

\* A pair at least the threshold apart whose planar geometry gives the
\* reference the hazard
VerticallyApartReached ==
  \E p \in negotiated :
    /\ HeightsApart(p) >= VERTICAL_OVERLAP_THRESHOLD
    /\ GeodesicOverlap(world[p.reference], world[p.other])
    /\ ReferenceToOther(p) > OtherToReference(p)
    /\ ~p.hazard

\* C8: when the two distances are equal neither order yields a hazard, and a
\* hazard is returned only for overlapping geodesic boundaries with the
\* reference strictly farther from the other's boundary than the other is
\* from the reference's.
TieYieldsNoHazard ==
  \A p \in negotiated :
    /\ ReferenceToOther(p) = OtherToReference(p) => ~p.hazard
    /\ p.hazard => /\ GeodesicOverlap(world[p.reference], world[p.other])
                   /\ ReferenceToOther(p) > OtherToReference(p)

\* Two level vehicles with overlapping geodesic boundaries at equal distances
\* that are not zero, negotiated in both orders without a hazard
TieReached ==
  \E p, q \in negotiated :
    /\ Mirrored(p, q)
    /\ HeightsApart(p) = 0
    /\ GeodesicOverlap(world[p.reference], world[p.other])
    /\ ReferenceToOther(p) = OtherToReference(p)
    /\ ReferenceToOther(p) > 0
    /\ ~p.hazard /\ ~q.hazard

(***************************************************************************)
(* Properties of the shared tables during Dispatch.                        *)
(***************************************************************************)
\* The threads that resolve candidates in the tables (lines 104-107)
Resolving == {t \in Threads : worker[t].pc = "candidates" /\ worker[t].actor_id_list # {}}

\* C11: no worker reads the table of unregistered actors while the elected
\* worker's scan or refresh modifies it: while a thread other than the one
\* that does the maintenance is resolving candidates, the table stays as it is.
TablesStableWhileRead ==
  [][\A t \in Resolving : StartIndex(t) # 0 =>
        unregistered_actors' = unregistered_actors]_vars

\* C12: a world scan inserts an actor into the table of unregistered actors
\* only if its identity is, at that moment, neither in id_to_index nor in the
\* table; the table, keyed by identity, holds one entry for an identity.
ScanInsertsOnlyUnknown ==
  [][\A actor_id \in unregistered_actors' \ unregistered_actors :
        /\ actor_id \notin DOMAIN id_to_index
        /\ \E t \in Threads : worker[t].pc = "scan" /\ StartIndex(t) = 0]_vars

\* A scan has inserted the actor it did not know and left out the managed
\* vehicles the world lists as well
ScanInsertedReached ==
  /\ \E t \in Threads : worker[t].pc = "refresh"
  /\ unregistered_actors # {}
  /\ unregistered_actors \cap DOMAIN id_to_index = {}
  /\ (alive \cap DOMAIN id_to_index) # {}

(***************************************************************************)
(* Frames outside the contract of the localization stage: empty path       *)
(* buffers and an identity at two indices.  A frame is received and        *)
(* GetGeodesicBoundary is called on an actor of the world.                 *)
(***************************************************************************)
AnyBuffers == {<< >>, PathBuffer}

AnyFrames ==
  { [k \in 1..NumberOfVehicle |-> Element(world[f[k]], b[k])] :
      f \in [1..NumberOfVehicle -> alive], b \in [1..NumberOfVehicle -> AnyBuffers] }

DataReceiverAny == \E frame \in AnyFrames : ReceiveFrame(frame)

\* The actor is found in id_to_index (line 226) and the buffer of line 234 is empty
EmptyBuffer(actor_id) ==
  /\ actor_id \in DOMAIN id_to_index
  /\ Len(FrameAt(id_to_index[actor_id]).buffer) = 0

\* A thread that has returned from GetGeodesicBoundary(actor) with a boundary
Returned(actor_id, boundary) ==
  [pc |-> "returned", actor_id |-> actor_id, geodesic_boundary |-> boundary]

\* GetGeodesicBoundary (lines 222-279), called by thread t.  On an empty
\* buffer lines 241-242 call front() on an empty container, which is
\* undefined: the pointer read is not a waypoint, and line 248 dereferences
\* it.  The process is killed there, or the read goes through, the distance of
\* the pointer to itself is 0, i < size() fails and the bounding box alone is
\* returned.
CallGetGeodesicBoundary(t, actor_id) ==
  /\ stage = "action"
  /\ worker[t].pc = "idle"
  /\ IF EmptyBuffer(actor_id)
     THEN \/ /\ stage' = "crashed"
             /\ UNCHANGED worker
          \/ /\ worker' = [worker EXCEPT
                   ![t] = Returned(actor_id, GetBoundary(world[actor_id]))]
             /\ UNCHANGED stage
     ELSE /\ worker' = [worker EXCEPT
                ![t] = Returned(actor_id, GetGeodesicBoundary(world[actor_id]))]
          /\ UNCHANGED stage
  /\ UNCHANGED << world, alive, localization_frame, id_to_index, unregistered_actors,
                  vicinity_grid, frame_selector, planner_frame_a, planner_frame_b,
                  packet, planner_messenger, tick, negotiated >>

NextDegenerate ==
  \/ DataReceiverAny
  \/ \E t \in Threads, actor_id \in ActorIds : CallGetGeodesicBoundary(t, actor_id)

SpecDegenerate == Init /\ [][NextDegenerate]_vars

\* C13: for a managed vehicle whose path buffer is empty GetGeodesicBoundary
\* raises no error and returns the vehicle's static boundary.
EmptyBufferGivesStaticBoundary ==
  /\ stage # "crashed"
  /\ \A t \in Threads :
       (worker[t].pc = "returned" /\ EmptyBuffer(worker[t].actor_id)) =>
          worker[t].geodesic_boundary = GetBoundary(world[worker[t].actor_id])

\* The identities of the frame, index by index
FrameIdAt(index) == GetId(FrameAt(index).actor)
DuplicateIdentity ==
  \E i, j \in Indices : i # j /\ FrameIdAt(i) = FrameIdAt(j)

\* C14: a frame that holds one identity at two indices aborts the tick at the
\* rebuild of id_to_index; the stage does not go on to Action with it.
DuplicateIdentityAborts ==
  (localization_frame # << >> /\ DuplicateIdentity) => stage \notin {"action", "send"}

(***************************************************************************)
(* The tick pipeline in a world with two vehicles out of reach.            *)
(***************************************************************************)
InitFar == InitIn(FarWorlds)

SpecFar == InitFar /\ [][Next]_vars

\* The actors a record of negotiated names are within SEARCH_RADIUS
InReach(reference_id, other_id) ==
  DistanceSquared(GetLocation(world[reference_id]), GetLocation(world[other_id]))
    <= SEARCH_RADIUS * SEARCH_RADIUS

\* C15: NegotiateCollision is called on an ego vehicle and a candidate only
\* when their squared distance is at most SEARCH_RADIUS * SEARCH_RADIUS, so
\* that no hazard flag of a vehicle is due to a vehicle further away: a worker
\* holds a hazard, and a slot at the end of the tick holds a flag, only with a
\* call for that vehicle (on an actor within reach, or on a null actor).
NegotiatedWithinRadiusOnly ==
  /\ \A p \in negotiated :
       p.other # GetId(NullActor) => InReach(p.reference, p.other)
  /\ \A t \in Threads :
       (stage = "action" /\ worker[t].pc = "candidates" /\ worker[t].collision_hazard) =>
          \E p \in negotiated : p.reference = FrameIdAt(worker[t].i) /\ p.hazard
  /\ EndOfTick =>
       \A i \in Indices :
          HazardFlag(i) => \E p \in negotiated : p.reference = FrameIdAt(i) /\ p.hazard

\* The second tick of vehicles 1 and 2, out of reach of each other, at the
\* indices they had in the first: each was a candidate of the other, no call
\* was made for the pair and neither is flagged.
FarPairNotFlagged ==
  /\ EndOfTick
  /\ tick = 2
  /\ DOMAIN id_to_index = {1, 2}
  /\ \A i \in Indices : id_to_index[FrameIdAt(i)] = i
  /\ {1, 2} \subseteq vicinity_grid
  /\ ~InReach(1, 2)
  /\ \A i \in Indices : ~HazardFlag(i)

Speeds ==
  {100 * speed : speed \in 0..MaxSpeed}
    \cup {HIGHWAY_SPEED - 1, HIGHWAY_SPEED, HIGHWAY_SPEED + 1}

\* A thread past line 233
Extended(velocity, bbox_extension) ==
  [pc |-> "extended", velocity |-> velocity, bbox_extension |-> bbox_extension]

\* lines 228-233 for an actor of the given velocity
ComputeExtension(t, velocity) ==
  /\ worker' = [worker EXCEPT ![t] = Extended(velocity, BboxExtension(velocity))]
  /\ UNCHANGED << world, alive, localization_frame, id_to_index, unregistered_actors,
                  vicinity_grid, frame_selector, planner_frame_a, planner_frame_b,
                  packet, planner_messenger, stage, tick, negotiated >>

NextSpeed == \E t \in Threads, velocity \in Speeds : ComputeExtension(t, velocity)

SpecSpeed == Init /\ [][NextSpeed]_vars

\* The additive formula of the claim, in hundredths
AdditiveExtension(velocity) ==
  Max(Sqrt(7 * velocity * 100), 150) + Max(velocity \div 2, 150) + 150

\* C17: the extension is max(sqrt(7.0 * speed), 1.5) + max(0.5 * speed, 1.5)
\* + 1.5 up to the highway threshold 50 / 3.6 and 5.0 * speed above it, and of
\* two speeds the higher never has the shorter extension.
ExtensionMonotoneInSpeed ==
  /\ \A t \in Threads :
       worker[t].pc = "extended" =>
          worker[t].bbox_extension =
            IF worker[t].velocity * 36 <= 50 * 1000
            THEN AdditiveExtension(worker[t].velocity)
            ELSE 5 * worker[t].velocity
  /\ \A t1, t2 \in Threads :
       (/\ worker[t1].pc = "extended"
        /\ worker[t2].pc = "extended"
        /\ worker[t1].velocity < worker[t2].velocity) =>
          worker[t1].bbox_extension <= worker[t2].bbox_extension

\* The extensions at the threshold and just above it
ThresholdCrossed ==
  \E t1, t2 \in Threads :
     /\ worker[t1].pc = "extended"
     /\ worker[t2].pc = "extended"
     /\ worker[t1].velocity = HIGHWAY_SPEED
     /\ worker[t2].velocity = HIGHWAY_SPEED + 1
     /\ worker[t1].bbox_extension < worker[t2].bbox_extension

(* Properties of the loop over the vehicles of a range (lines 86-127). *)
\* The calls of NegotiateCollision made for the vehicle at index i on another
\* actor that returned true
HazardCalls(i) ==
  {p \in negotiated :
     /\ p.reference = FrameIdAt(i)
     /\ p.other \notin {GetId(NullActor), p.reference}
     /\ p.hazard}

\* C18: a worker never negotiates a vehicle against itself, and the flag it
\* writes into slot i is true iff a call of NegotiateCollision for the vehicle
\* at i on a candidate other than the vehicle itself returned true.
FlagIffOtherCandidateHazard ==
  /\ \A p \in negotiated : p.reference # p.other
  /\ EndOfTick => \A i \in Indices : HazardFlag(i) <=> HazardCalls(i) # {}

\* C19: the table of unregistered actors and id_to_index never hold the same
\* identity.
TableAndRegistryDisjoint == unregistered_actors \cap DOMAIN id_to_index = {}

(* Properties of what a call of Action writes. *)
\* The output arrays after a step
PlannerFrameAfter(instance) ==
  IF instance = "a" THEN planner_frame_a' ELSE planner_frame_b'

\* Thread t leaves the loop of line 97 and executes lines 124-125
WritesSlot(t) ==
  /\ worker[t].pc = "candidates"
  /\ worker'[t].pc \in {"query", "done"}

\* The flag computed in this tick for the vehicle at index i
ComputedHazard(i) ==
  \E p \in negotiated : p.reference = FrameIdAt(i) /\ p.hazard

\* Inside Action a thread is at a slot of its range, no two threads are at the
\* same slot, and a thread that has returned has passed every slot of its range
WithinRange ==
  /\ \A t \in Threads :
       /\ (stage = "action" /\ Active(t)) =>
             (StartIndex(t) <= worker[t].i /\ worker[t].i <= EndIndex(t))
       /\ worker[t].pc = "done" => worker[t].i = EndIndex(t) + 1
  /\ \A t1, t2 \in Threads :
       (t1 # t2 /\ Active(t1) /\ Active(t2)) => worker[t1].i # worker[t2].i

\* A slot changes only when the thread at that slot writes it, in the array
\* selected by frame_selector; the thread then moves on to the next slot, and
\* the selector does not change while a thread is inside Action
WritesOwnSlotOnly ==
  /\ \A instance \in {"a", "b"}, i \in Indices :
       PlannerFrameAfter(instance)[i] # PlannerFrame(instance)[i] =>
          \E t \in Threads :
             /\ WritesSlot(t)
             /\ worker[t].i = i
             /\ instance = CurrentPlannerFrame(frame_selector)
  /\ \A t \in Threads :
       WritesSlot(t) =>
          /\ worker'[t].i = worker[t].i + 1
          /\ PlannerFrameAfter(CurrentPlannerFrame(frame_selector))[worker[t].i]
                = worker[t].collision_hazard
  /\ \A t \in Threads :
       (worker'[t].i # worker[t].i /\ Active(t)) => WritesSlot(t)
  /\ frame_selector' # frame_selector => \A t \in Threads : ~Active(t)

=============================================================================
